---- MODULE Spec2Model ----
(***************************************************************************)
(* Region deployment lifecycle of the exchange latency explorer.           *)
(*                                                                         *)
(* Two state machines are modelled from src/main.py:                       *)
(*   - main(): the sequential loop over the configured regions, with the   *)
(*     try / except / finally around each region and the final report      *)
(*     (specification Spec);                                               *)
(*   - ssh_wait_for_file(): the poll loop with its clock, its two sleeps   *)
(*     and its three exception handlers (specification SpecPoll).          *)
(* In Spec the call wait_for_results() is one step whose boolean result is *)
(* an input; SpecPoll runs the loop behind that result step by step for    *)
(* timeouts drawn from 0..MaxTimeout and for the timeout that main passes. *)
(***************************************************************************)
EXTENDS Integers, Sequences, FiniteSets, TLC

\* ------------------------------------------------------------------ bounds
MaxRegions == 2
MaxTimeout == 12
MaxOpTime == 1

\* --------------------------------------------------------------- constants
POLL_INTERVAL == 5
SSH_BACKOFF == 10
REGION_DELAY == 30
WAIT_TIMEOUT == 300

RegionNames == {"us-east-1", "eu-west-1"}

\* config.aws.regions: every list of at most MaxRegions region names
\* (repetitions included).
RegionLists == UNION {[1..n -> RegionNames] : n \in 0..MaxRegions}

\* config.aws.ami_mapping: an image for every region name, or no mapping.
AmiMappings == {RegionNames, {}}

\* config.py 52-57: validate_config raises ValueError for a configuration
\* without regions or without image mapping. main() does not call it.
validate_config(r, m) ==
    IF r = <<>> \/ m = {} THEN "ValueError" ELSE "ok"

VARIABLES
    \* ---- main()
    report_only,    \* args.report_only
    regions,        \* config.aws.regions
    ami_mapping,    \* config.aws.ami_mapping: the regions that have an image
    pc,             \* position of main()
    idx,            \* position of the for loop in regions (0 before the first)
    region,         \* the loop variable
    success,        \* the local flag of the loop body
    instance_ip,    \* the local instance_ip ("" while unset)
    continuing,     \* a continue statement is pending while finally runs
    started,        \* the "Processing region" events, in order
    steps,          \* per list position: the calls made and how each ended
    result,         \* per list position: the final message of the finally block
    cleanupWarned,  \* per list position: the warning of line 308 was printed
    delayed,        \* per list position: the time slept after the region
    reportCalls,    \* number of calls of generate_report
    dirs,           \* the terraform_<region> directories that exist
    \* ---- ssh_wait_for_file()
    wpc,            \* position of ssh_wait_for_file
    timeout,        \* its timeout argument
    now,            \* time.time() - start_time
    cycleOps,       \* time the session operations of the current cycle took
    lastSleep,      \* the last time.sleep of the loop (0 when none)
    attempts,       \* number of client.connect calls
    clientOpen,     \* the SSH client holds a connection
    sftpOpen,       \* the SFTP channel is open
    lastOutcome,    \* how the last session operation ended
    ret,            \* the return value ("none" until it returns)
    reason,         \* which return statement was taken
    \* ---- the agent's artifact, copy_results() and load_results()
    cpc,            \* position of the artifact's way from the agent to the report
    copyRegion,     \* self.region of the deployment that copies
    remoteFile,     \* /tmp/exchange_stats.json on the instance
    copyClient,     \* the SSH client of copy_results holds a connection
    copySftp,       \* the SFTP channel of copy_results is open
    copyRet,        \* the return value of copy_results ("none" until it returns)
    copyFailedAt,   \* the call of copy_results that raised ("none" if none did)
    output_dir,     \* the files of config.output_dir
    loaded          \* how load_results ended ("none" until it is called)

mainVars == <<report_only, regions, ami_mapping, pc, idx, region, success, instance_ip,
              continuing, started, steps, result, cleanupWarned, delayed,
              reportCalls, dirs>>
pollVars == <<wpc, timeout, now, cycleOps, lastSleep, attempts, clientOpen,
              sftpOpen, lastOutcome, ret, reason>>
copyVars == <<cpc, copyRegion, remoteFile, copyClient, copySftp, copyRet,
              copyFailedAt, output_dir, loaded>>
vars == <<mainVars, pollVars, copyVars>>

\* ------------------------------------------------------- outcomes of calls
\* execute_terraform: exit status 0, CalledProcessError (returns False), or
\* any other exception of subprocess.run (not caught there).
TfOutcomes == {"ok", "fail", "raise"}
\* prepare_terraform_files returns nothing and catches nothing.
PrepareOutcomes == {"ok", "raise"}
\* get_instance_ip: a non-empty address, the JSON string "", None, or an
\* exception it does not catch.
IpOutcomes == {"addr", "empty", "none", "raise"}
\* wait_for_results and copy_results catch every Exception.
BoolOutcomes == {"ok", "fail"}
\* shutil.rmtree inside cleanup_resources.
RmOutcomes == {"ok", "raise"}
\* generate_report catches nothing.
ReportOutcomes == {"ok", "raise"}

Addresses == {"10.0.0.1"}

\* ---------------------------------------------------------------- helpers
\* RegionDeployment.__init__: self.terraform_dir = f"terraform_{region}"
TerraformDir(r) == <<"terraform", r>>

Log(step, out) == [steps EXCEPT ![idx] = Append(@, <<step, out>>)]

\* The entries of a region's log made by step `name`.
Entries(i, name) == {k \in 1..Len(steps[i]) : steps[i][k][1] = name}

\* for region in config.aws.regions: is there a next element.
HasNext_OffByOne(i) == i < Len(regions) - 1
HasNext(i) == i < Len(regions)

\* for region in config.aws.regions: the element the loop takes at step i.
RegionAt_Reversed(i) == regions[Len(regions) + 1 - i]
RegionAt(i) == regions[i]

\* An exception in the try block: the except clause prints, finally runs.
OnRaise_Escapes == "crashed"
OnRaise_SkipsFinally == "loop"
OnRaise == "cleanup"

\* A continue inside the try block: finally runs before the loop goes on.
OnContinue_SkipsFinally == "loop"
OnContinue_Retries == pc
OnContinue == "cleanup"

\* if deployment.copy_results(instance_ip): success = True
SuccessAfterCopy_Ignored(out) == TRUE
SuccessAfterCopy(out) == out = "ok"

\* cleanup_resources: its own try / except Exception turns an exception of
\* the destroy command into the return value False.
AfterCleanup_Propagates(out) == IF out = "raise" THEN "crashed" ELSE "summary"
AfterCleanup(out) == "summary"

\* cleanup_resources' return value.
CleanupReturn(out) == out = "ok"

\* if not success: "Failed to complete testing" else "Successfully completed".
RegionResult_Downgraded(succ) ==
    IF succ /\ ~cleanupWarned[idx] THEN "Succeeded" ELSE "Failed"
RegionResult(succ) == IF succ THEN "Succeeded" ELSE "Failed"

\* if args.report_only: generate_report(...); return
StartTarget_IgnoresFlag(flag) == "loop"
StartTarget(flag) == IF flag THEN "report" ELSE "loop"

\* cleanup_resources: shutil.rmtree is reached only after a destroy command
\* that succeeded, and its own failure is only logged.
RemovesDir_Always(out, rm) == rm = "ok"
RemovesDir(out, rm) == out = "ok" /\ rm = "ok"

\* After the finally block: a pending continue goes to the loop header,
\* otherwise control falls to the statement after the try statement.
AfterFinally(cont) == IF cont THEN "loop" ELSE "after"

PollIdle ==
    /\ wpc = "idle"
    /\ timeout = 0
    /\ now = 0
    /\ cycleOps = 0
    /\ lastSleep = 0
    /\ attempts = 0
    /\ clientOpen = FALSE
    /\ sftpOpen = FALSE
    /\ lastOutcome = "none"
    /\ ret = "none"
    /\ reason = "none"

\* No file on the instance, or a file of the output directory not yet there.
NoFile == [text |-> "absent", keys |-> {}, exchanges |-> <<>>]

\* The state of the copy while main() or ssh_wait_for_file is run on its own.
CopyIdle ==
    /\ cpc = "idle"
    /\ copyRegion = "none"
    /\ remoteFile = NoFile
    /\ copyClient = FALSE
    /\ copySftp = FALSE
    /\ copyRet = "none"
    /\ copyFailedAt = "none"
    /\ output_dir = {}
    /\ loaded = "none"

\* -------------------------------------------------------------------- main
Init ==
    /\ report_only \in BOOLEAN
    /\ regions \in RegionLists
    /\ ami_mapping \in AmiMappings
    /\ pc = "start"
    /\ idx = 0
    /\ region = "none"
    /\ success = FALSE
    /\ instance_ip = ""
    /\ continuing = FALSE
    /\ started = <<>>
    /\ steps = [i \in 1..Len(regions) |-> <<>>]
    /\ result = [i \in 1..Len(regions) |-> "none"]
    /\ cleanupWarned = [i \in 1..Len(regions) |-> FALSE]
    /\ delayed = [i \in 1..Len(regions) |-> 0]
    /\ reportCalls = 0
    /\ dirs = {}
    /\ PollIdle
    /\ CopyIdle

\* main.py 272-279: parse_args, load_config, makedirs, the report-only branch.
MainStart ==
    /\ pc = "start"
    /\ pc' = StartTarget(report_only)
    /\ UNCHANGED <<report_only, regions, idx, region, success, instance_ip,
                   continuing, started, steps, result, cleanupWarned, delayed,
                   reportCalls>>
    /\ UNCHANGED dirs
    /\ UNCHANGED ami_mapping
    /\ UNCHANGED pollVars
    /\ UNCHANGED copyVars

\* main.py 279-282: the loop header and the first statements of the body.
LoopNext ==
    /\ pc = "loop"
    /\ IF HasNext(idx)
       THEN /\ idx' = idx + 1
            /\ region' = RegionAt(idx + 1)
            /\ started' = Append(started, RegionAt(idx + 1))
            /\ success' = FALSE
            /\ continuing' = FALSE
            /\ pc' = "prepare"
       ELSE /\ pc' = "report"
            /\ UNCHANGED <<idx, region, started, success, continuing>>
    /\ UNCHANGED <<report_only, regions, instance_ip, steps, result,
                   cleanupWarned, delayed, reportCalls>>
    /\ UNCHANGED dirs
    /\ UNCHANGED ami_mapping
    /\ UNCHANGED pollVars
    /\ UNCHANGED copyVars

\* main.py 285: deployment.prepare_terraform_files() (103-126). os.makedirs
\* comes first: when a later statement raises the directory exists, when
\* makedirs itself raises it may not. Line 112 raises KeyError for a region
\* without image.
Prepare ==
    /\ pc = "prepare"
    /\ \E out \in PrepareOutcomes, made \in BOOLEAN :
          /\ out = "ok" => made /\ region \in ami_mapping
          /\ steps' = Log("prepare", out)
          /\ dirs' = IF made THEN dirs \cup {TerraformDir(region)} ELSE dirs
          /\ pc' = IF out = "ok" THEN "init" ELSE OnRaise
    /\ UNCHANGED <<report_only, regions, idx, region, success, instance_ip,
                   continuing, started, result, cleanupWarned, delayed,
                   reportCalls>>
    /\ UNCHANGED ami_mapping
    /\ UNCHANGED pollVars
    /\ UNCHANGED copyVars

\* main.py 286-290: one execute_terraform call and the continue on False.
Terraform(at, step, next) ==
    /\ pc = at
    /\ \E out \in TfOutcomes :
          /\ steps' = Log(step, out)
          /\ pc' = CASE out = "ok" -> next
                     [] out = "fail" -> OnContinue
                     [] out = "raise" -> OnRaise
          /\ continuing' = (out = "fail")
    /\ UNCHANGED <<report_only, regions, idx, region, success, instance_ip,
                   started, result, cleanupWarned, delayed, reportCalls>>
    /\ UNCHANGED dirs
    /\ UNCHANGED ami_mapping
    /\ UNCHANGED pollVars
    /\ UNCHANGED copyVars

\* main.py 286-287
TfInit == Terraform("init", "init", "apply")

\* main.py 289-290
TfApply == Terraform("apply", "apply", "output")

\* main.py 291-294: get_instance_ip and the continue on a falsy address.
GetInstanceIp ==
    /\ pc = "output"
    /\ \E out \in IpOutcomes :
          /\ steps' = Log("output", out)
          /\ instance_ip' = IF out = "addr" THEN CHOOSE a \in Addresses : TRUE
                            ELSE ""
          /\ pc' = CASE out = "addr" -> "wait"
                     [] out \in {"empty", "none"} -> OnContinue
                     [] out = "raise" -> OnRaise
          /\ continuing' = (out \in {"empty", "none"})
    /\ UNCHANGED <<report_only, regions, idx, region, success, started,
                   result, cleanupWarned, delayed, reportCalls>>
    /\ UNCHANGED dirs
    /\ UNCHANGED ami_mapping
    /\ UNCHANGED pollVars
    /\ UNCHANGED copyVars

\* main.py 295, 300-301: deployment.wait_for_results(instance_ip)
WaitForResults ==
    /\ pc = "wait"
    /\ \E out \in BoolOutcomes :
          /\ steps' = Log("wait", out)
          /\ pc' = IF out = "ok" THEN "copy" ELSE "cleanup"
    /\ UNCHANGED <<report_only, regions, idx, region, success, instance_ip,
                   continuing, started, result, cleanupWarned, delayed,
                   reportCalls>>
    /\ UNCHANGED dirs
    /\ UNCHANGED ami_mapping
    /\ UNCHANGED pollVars
    /\ UNCHANGED copyVars

\* main.py 296-299: deployment.copy_results(instance_ip)
CopyResults ==
    /\ pc = "copy"
    /\ \E out \in BoolOutcomes :
          /\ steps' = Log("copy", out)
          /\ success' = SuccessAfterCopy(out)
    /\ pc' = "cleanup"
    /\ UNCHANGED <<report_only, regions, idx, region, instance_ip, continuing,
                   started, result, cleanupWarned, delayed, reportCalls>>
    /\ UNCHANGED dirs
    /\ UNCHANGED ami_mapping
    /\ UNCHANGED pollVars
    /\ UNCHANGED copyVars

\* main.py 306-308 with cleanup_resources (229-244): the destroy command, the
\* removal of the directory when destroy succeeded, and the warning.
Cleanup ==
    /\ pc = "cleanup"
    /\ \E out \in TfOutcomes, rm \in RmOutcomes :
          /\ steps' = Log("destroy", out)
          /\ dirs' = IF RemovesDir(out, rm)
                     THEN dirs \ {TerraformDir(region)} ELSE dirs
          /\ cleanupWarned' = [cleanupWarned EXCEPT ![idx] = ~CleanupReturn(out)]
          /\ pc' = AfterCleanup(out)
    /\ UNCHANGED <<report_only, regions, idx, region, success, instance_ip,
                   continuing, started, result, delayed, reportCalls>>
    /\ UNCHANGED ami_mapping
    /\ UNCHANGED pollVars
    /\ UNCHANGED copyVars

\* main.py 310-313: the final message of the region, then the pending
\* continue or the fall through.
Summary ==
    /\ pc = "summary"
    /\ result' = [result EXCEPT ![idx] = RegionResult(success)]
    /\ pc' = AfterFinally(continuing)
    /\ continuing' = FALSE
    /\ UNCHANGED <<report_only, regions, idx, region, success, instance_ip,
                   started, steps, cleanupWarned, delayed, reportCalls>>
    /\ UNCHANGED dirs
    /\ UNCHANGED ami_mapping
    /\ UNCHANGED pollVars
    /\ UNCHANGED copyVars

\* main.py 314-316: the delay between regions.
AfterRegion ==
    /\ pc = "after"
    /\ delayed' = [delayed EXCEPT ![idx] =
                       IF region # regions[Len(regions)] THEN REGION_DELAY ELSE 0]
    /\ pc' = "loop"
    /\ UNCHANGED <<report_only, regions, idx, region, success, instance_ip,
                   continuing, started, steps, result, cleanupWarned,
                   reportCalls>>
    /\ UNCHANGED dirs
    /\ UNCHANGED ami_mapping
    /\ UNCHANGED pollVars
    /\ UNCHANGED copyVars

\* main.py 277 and 317 with generate_report (261-268).
GenerateReport ==
    /\ pc = "report"
    /\ reportCalls' = reportCalls + 1
    /\ \E out \in ReportOutcomes :
          pc' = IF out = "ok" THEN "done" ELSE "crashed"
    /\ UNCHANGED <<report_only, regions, idx, region, success, instance_ip,
                   continuing, started, steps, result, cleanupWarned, delayed>>
    /\ UNCHANGED dirs
    /\ UNCHANGED ami_mapping
    /\ UNCHANGED pollVars
    /\ UNCHANGED copyVars

Next ==
    \/ MainStart
    \/ LoopNext
    \/ Prepare
    \/ TfInit
    \/ TfApply
    \/ GetInstanceIp
    \/ WaitForResults
    \/ CopyResults
    \/ Cleanup
    \/ Summary
    \/ AfterRegion
    \/ GenerateReport

Spec == Init /\ [][Next]_vars

\* ------------------------------------------------- properties of the run
Positions == 1..Len(regions)

\* Number of destroy commands run for the region at list position i.
DestroyCalls(i) == Cardinality(Entries(i, "destroy"))

\* The destroy command of the region at position i failed or raised.
DestroyFailed(i) == \E k \in Entries(i, "destroy") : steps[i][k][2] # "ok"

\* The calls of the try block made for the region at position i.
TestSteps(i) == SelectSeq(steps[i], LAMBDA e : e[1] # "destroy")

\* Some call of the try block failed or raised.
TestFailed(i) == \E k \in 1..Len(TestSteps(i)) : TestSteps(i)[k][2] \notin {"ok", "addr"}

\* Every call of the try block was made and succeeded.
SuccessPath ==
    << <<"prepare", "ok">>, <<"init", "ok">>, <<"apply", "ok">>,
       <<"output", "addr">>, <<"wait", "ok">>, <<"copy", "ok">> >>

\* Control has left the loop body of the region at position i.
LifecycleOver(i) ==
    \/ i < idx
    \/ i = idx /\ pc \in {"after", "loop", "report", "done", "crashed"}

\* The region at position i has started and has no final message yet.
InProgress(i) == i <= Len(started) /\ result[i] = "none"

\* C1: for every region and every combination of outcomes of its steps, the
\* destroy command is run exactly once in the region's lifecycle: never twice,
\* and once the lifecycle is over it has been run.
C1_DestroyExactlyOnce ==
    \A i \in Positions :
        /\ DestroyCalls(i) <= 1
        /\ LifecycleOver(i) => DestroyCalls(i) = 1

C1_Witness ==
    /\ pc = "done"
    /\ \E i \in Positions : steps[i] = << <<"prepare", "raise">>, <<"destroy", "ok">> >>
    /\ \E j \in Positions : <<"apply", "fail">> \in {steps[j][k] : k \in 1..Len(steps[j])}
    /\ \A i \in Positions : DestroyCalls(i) = 1

\* C2: a failure of a region at any stage stays in that region: the region
\* ends Failed, no exception leaves the loop body (only generate_report, which
\* runs after the loop, can abort main), and every later region is started.
C2_FailureContained ==
    /\ pc = "crashed" => reportCalls = 1
    /\ \A i \in Positions : LifecycleOver(i) /\ TestFailed(i) => result[i] = "Failed"
    /\ \A i \in Positions :
          TestFailed(i) /\ pc \in {"report", "done", "crashed"}
              => \A j \in (i + 1)..Len(regions) : j <= Len(started) /\ steps[j] # <<>>

C2_Witness ==
    /\ Len(regions) >= 2
    /\ steps[1] = << <<"prepare", "ok">>, <<"init", "ok">>, <<"apply", "raise">>,
                     <<"destroy", "ok">> >>
    /\ result[1] = "Failed"
    /\ result[2] = "Succeeded"
    /\ pc = "done"

\* C3: in a normal run generate_report is called exactly once, and only when
\* every configured region has had its cleanup and its final message.
C3_ReportOnceAfterAllRegions ==
    ~report_only =>
        /\ reportCalls <= 1
        /\ pc = "done" => reportCalls = 1
        /\ (pc = "report" \/ reportCalls >= 1) =>
              \A i \in Positions : DestroyCalls(i) = 1 /\ result[i] # "none"

C3_Witness ==
    /\ ~report_only
    /\ pc = "done"
    /\ reportCalls = 1
    /\ Len(regions) >= 2
    /\ result[1] = "Failed"
    /\ result[Len(regions)] = "Succeeded"

\* C4: a region ends Succeeded exactly when prepare, init, apply, the address
\* query (non-empty), the wait and the copy all succeeded, in that order; in
\* every other case it ends Failed.
C4_SucceededOnlyViaRetrieve ==
    \A i \in Positions :
        /\ result[i] = "Succeeded" => TestSteps(i) = SuccessPath
        /\ LifecycleOver(i) =>
              result[i] = IF TestSteps(i) = SuccessPath THEN "Succeeded" ELSE "Failed"

C4_Witness ==
    /\ pc = "done"
    /\ \E i, j \in Positions :
          /\ i < j
          /\ result[i] = "Succeeded"
          /\ result[j] = "Failed"
          /\ TestSteps(j) = << <<"prepare", "ok">>, <<"init", "ok">>,
                               <<"apply", "ok">>, <<"output", "empty">> >>
          /\ DestroyCalls(i) = 1 /\ DestroyCalls(j) = 1

\* C5 as stated: a region whose destroy failed ends Failed.
C5_FailedWhenDestroyFails ==
    \A i \in Positions : LifecycleOver(i) /\ DestroyFailed(i) => result[i] = "Failed"

\* C5 as amended: a failing destroy is reported by the warning only; the final
\* result of the region is what the try block determined, so the region ends
\* Succeeded exactly when wait and copy (and the steps before) succeeded.
C5_DestroyFailureOnlyWarns ==
    \A i \in Positions :
        LifecycleOver(i) /\ DestroyFailed(i) =>
            /\ cleanupWarned[i]
            /\ result[i] = "Succeeded" <=> TestSteps(i) = SuccessPath

C5_Witness ==
    \E i \in Positions :
        /\ LifecycleOver(i)
        /\ steps[i] = SuccessPath \o << <<"destroy", "fail">> >>
        /\ cleanupWarned[i]
        /\ result[i] = "Succeeded"

\* C6: a failing destroy (False returned, or an exception) never aborts the
\* run: the region goes on to its final message, the following regions are
\* started, and the report is reached.
C6_DestroyFailureNotEscalated ==
    \A i \in Positions :
        DestroyFailed(i) =>
            /\ pc = "crashed" => reportCalls = 1
            /\ i = idx => pc \in {"summary", "after", "loop", "report", "done", "crashed"}
            /\ pc \in {"report", "done", "crashed"} => Len(started) = Len(regions)

C6_Witness ==
    /\ pc = "done"
    /\ reportCalls = 1
    /\ Len(regions) >= 2
    /\ steps[1] # <<>>
    /\ steps[1][Len(steps[1])] = <<"destroy", "raise">>
    /\ steps[2] # <<>>

\* C7: at most one region is between its start and its final message, and a
\* region starts only when the region before it has had its destroy command
\* and its final message.
C7_OneRegionAtATime ==
    /\ Cardinality({i \in Positions : InProgress(i)}) <= 1
    /\ \A i \in Positions :
          i > 1 /\ i <= Len(started) => DestroyCalls(i - 1) = 1 /\ result[i - 1] # "none"
    /\ \A i \in Positions : i > Len(started) => steps[i] = <<>>

C7_Witness ==
    /\ Len(started) = 2
    /\ InProgress(2)
    /\ pc = "apply"
    /\ DestroyFailed(1)
    /\ result[1] = "Failed"

\* C8: the start events are the configured list, in its order, one per entry:
\* always a prefix of it, and the whole of it once the loop is over.
C8_StartOrder ==
    /\ Len(started) = idx
    /\ idx <= Len(regions)
    /\ started = SubSeq(regions, 1, idx)
    /\ ~report_only /\ pc \in {"report", "done", "crashed"} => started = regions

C8_Witness ==
    /\ pc = "done"
    /\ Len(regions) >= 2
    /\ regions[1] # regions[2]
    /\ started = regions
    /\ TestFailed(1)

\* The order of the calls of the try block.
StepOrder == <<"prepare", "init", "apply", "output", "wait", "copy">>

\* No region name occurs twice in the configured list.
DistinctRegions == \A i, j \in Positions : regions[i] = regions[j] => i = j

\* C13: after every region but the last of the list, whatever its outcome, the
\* 30-unit delay is slept before the next region starts (stated for lists
\* without repeated names, where "not the last" is what line 314 tests).
C13_DelayAfterEveryRegionButLast ==
    DistinctRegions =>
        \A i \in Positions :
            i < Len(regions) /\ i + 1 <= Len(started) => delayed[i] = REGION_DELAY

\* C14: with a configuration that validate_config rejects (no regions, or no
\* image mapping) a normal run starts no region, makes no per-region call and
\* does not run to its end.
C14_InvalidConfigAborts ==
    validate_config(regions, ami_mapping) # "ok" /\ ~report_only =>
        /\ started = <<>>
        /\ \A i \in Positions : steps[i] = <<>>
        /\ dirs = {}
        /\ pc # "done"

\* C15 as stated: when the lifecycle of a region is over its working
\* directory does not exist.
C15_DirRemovedAtEnd ==
    \A i \in Positions : LifecycleOver(i) => TerraformDir(regions[i]) \notin dirs

\* C15 as amended: the working directory is removed only after a destroy
\* command that succeeded; a region whose files were prepared and whose
\* destroy command failed or raised leaves its directory in place, and a
\* directory that is gone after the cleanup had a successful destroy.
C15_DirKeptWhenDestroyFails ==
    \A i \in Positions :
        i = idx /\ pc \in {"summary", "after", "loop"} /\ steps[i][1] = <<"prepare", "ok">> =>
            /\ DestroyFailed(i) => TerraformDir(regions[i]) \in dirs
            /\ TerraformDir(regions[i]) \notin dirs => steps[i][Len(steps[i])] = <<"destroy", "ok">>

C15_Witness ==
    /\ idx >= 1
    /\ pc = "after"
    /\ steps[idx] = SuccessPath \o << <<"destroy", "raise">> >>
    /\ TerraformDir(regions[idx]) \in dirs

\* C18: in report-only mode no region is started and no per-region call is
\* made, no directory is created, and generate_report is called exactly once.
C18_ReportOnlySkipsRegions ==
    report_only =>
        /\ pc \in {"start", "report", "done", "crashed"}
        /\ idx = 0
        /\ started = <<>>
        /\ \A i \in Positions : steps[i] = <<>> /\ result[i] = "none" /\ delayed[i] = 0
        /\ dirs = {}
        /\ reportCalls <= 1
        /\ pc \in {"done", "crashed"} => reportCalls = 1

C18_Witness ==
    /\ report_only
    /\ pc = "done"
    /\ reportCalls = 1
    /\ Len(regions) >= 2
    /\ ami_mapping = RegionNames

\* C20: in one region the calls of the try block are made at most once each,
\* in the order prepare, init, apply, address query, wait, copy, each only
\* after the one before it succeeded; after the first failure only the destroy
\* command follows, and nothing follows the destroy command.
C20_StepsInOrderNoRetry ==
    \A i \in Positions :
        /\ Len(TestSteps(i)) <= Len(StepOrder)
        /\ \A k \in 1..Len(TestSteps(i)) : TestSteps(i)[k][1] = StepOrder[k]
        /\ \A k \in 1..(Len(TestSteps(i)) - 1) : TestSteps(i)[k] = SuccessPath[k]
        /\ \A k \in Entries(i, "destroy") : k = Len(steps[i])

C20_Witness ==
    /\ pc = "done"
    /\ \E i, j \in Positions :
          /\ steps[i] = << <<"prepare", "ok">>, <<"init", "ok">>, <<"apply", "fail">>,
                           <<"destroy", "ok">> >>
          /\ steps[j] = SuccessPath \o << <<"destroy", "ok">> >>

\* ------------------------------------------------------- ssh_wait_for_file
\* Session operations: paramiko raises AuthenticationException / SSHException
\* (the first except clause), FileNotFoundError for a missing directory (the
\* second), or anything else (socket errors, EOFError, PermissionError), which
\* only the outer except Exception catches.
KeyOutcomes == {"ok", "keyError"}
ConnectOutcomes == {"ok", "sshError", "otherError"}
ListOutcomes == {"found", "absent", "dirMissing", "sshError", "otherError"}
OpTimes == 0..MaxOpTime

\* The timeout argument: small values, and the one wait_for_results passes.
PollTimeouts == (0..MaxTimeout) \cup {WAIT_TIMEOUT}

\* while time.time() - start_time < timeout
LoopCondition_Inclusive(elapsed, limit) == elapsed <= limit
LoopCondition_CheckFirst(elapsed, limit) == elapsed < limit \/ attempts = 0
LoopCondition(elapsed, limit) == elapsed < limit

\* Where an exception raised inside the loop body leads: the first except
\* clause sleeps and continues, the second and the outer one return False.
AfterError_AlwaysRetries(kind) ==
    IF kind = "dirMissing" THEN "returned" ELSE "backoff"
AfterError_DirMissingRetries(kind) ==
    IF kind = "otherError" THEN "returned" ELSE "backoff"
AfterError(kind) ==
    CASE kind = "sshError" -> "backoff"
      [] kind = "dirMissing" -> "returned"
      [] kind = "otherError" -> "returned"

\* The message printed with a return False out of an exception handler.
ErrorReason(kind) == IF kind = "dirMissing" THEN "dirMissing" ELSE "error"

\* The state of the main loop while ssh_wait_for_file is run on its own.
MainIdle ==
    /\ report_only = FALSE
    /\ regions = <<>>
    /\ ami_mapping = RegionNames
    /\ pc = "none"
    /\ idx = 0
    /\ region = "none"
    /\ success = FALSE
    /\ instance_ip = CHOOSE a \in Addresses : TRUE
    /\ continuing = FALSE
    /\ started = <<>>
    /\ steps = <<>>
    /\ result = <<>>
    /\ cleanupWarned = <<>>
    /\ delayed = <<>>
    /\ reportCalls = 0
    /\ dirs = {}

InitPoll ==
    /\ MainIdle
    /\ CopyIdle
    /\ wpc = "start"
    /\ timeout \in PollTimeouts
    /\ now = 0
    /\ cycleOps = 0
    /\ lastSleep = 0
    /\ attempts = 0
    /\ clientOpen = FALSE
    /\ sftpOpen = FALSE
    /\ lastOutcome = "none"
    /\ ret = "none"
    /\ reason = "none"

\* An exception of kind `kind` raised in the loop body.
Raise(kind) ==
    /\ wpc' = AfterError(kind)
    /\ ret' = IF AfterError(kind) = "returned" THEN "false" ELSE ret
    /\ reason' = IF AfterError(kind) = "returned" THEN ErrorReason(kind)
                 ELSE reason

\* main.py 57-62: load the key, build the client, take start_time.
PollStart ==
    /\ wpc = "start"
    /\ \E out \in KeyOutcomes :
          /\ lastOutcome' = out
          /\ IF out = "ok"
             THEN wpc' = "while" /\ UNCHANGED <<ret, reason>>
             ELSE wpc' = "returned" /\ ret' = "false" /\ reason' = "error"
    /\ UNCHANGED <<timeout, now, cycleOps, lastSleep, attempts, clientOpen,
                   sftpOpen>>
    /\ UNCHANGED mainVars
    /\ UNCHANGED copyVars

\* main.py 63 and 87-88: the loop condition and the timeout return.
WhileCheck ==
    /\ wpc = "while"
    /\ IF LoopCondition(now, timeout)
       THEN /\ wpc' = "connect"
            /\ cycleOps' = 0
            /\ UNCHANGED <<ret, reason>>
       ELSE /\ wpc' = "returned"
            /\ ret' = "false"
            /\ reason' = "timeout"
            /\ UNCHANGED cycleOps
    /\ UNCHANGED <<timeout, now, lastSleep, attempts, clientOpen, sftpOpen,
                   lastOutcome>>
    /\ UNCHANGED mainVars
    /\ UNCHANGED copyVars

\* main.py 65: client.connect(...)
Connect ==
    /\ wpc = "connect"
    /\ \E out \in ConnectOutcomes, d \in OpTimes :
          /\ now' = now + d
          /\ cycleOps' = cycleOps + d
          /\ lastOutcome' = out
          /\ IF out = "ok"
             THEN /\ clientOpen' = TRUE
                  /\ wpc' = "open_sftp"
                  /\ UNCHANGED <<ret, reason>>
             ELSE /\ Raise(out)
                  /\ UNCHANGED clientOpen
    /\ attempts' = attempts + 1
    /\ UNCHANGED <<timeout, lastSleep, sftpOpen>>
    /\ UNCHANGED mainVars
    /\ UNCHANGED copyVars

\* main.py 66: sftp = client.open_sftp()  (outside the inner try / finally)
OpenSftp ==
    /\ wpc = "open_sftp"
    /\ \E out \in ConnectOutcomes :
          /\ lastOutcome' = out
          /\ IF out = "ok"
             THEN /\ sftpOpen' = TRUE
                  /\ wpc' = "listdir"
                  /\ UNCHANGED <<ret, reason>>
             ELSE /\ Raise(out)
                  /\ UNCHANGED sftpOpen
    /\ UNCHANGED <<timeout, now, cycleOps, lastSleep, attempts, clientOpen>>
    /\ UNCHANGED mainVars
    /\ UNCHANGED copyVars

\* main.py 67-73: the listing, the return True, and the finally block that
\* closes the channel and the client on every way out.
Listdir ==
    /\ wpc = "listdir"
    /\ \E out \in ListOutcomes, d \in OpTimes :
          /\ now' = now + d
          /\ cycleOps' = cycleOps + d
          /\ lastOutcome' = out
          /\ CASE out = "found" ->
                    wpc' = "returned" /\ ret' = "true" /\ reason' = "found"
               [] out = "absent" ->
                    wpc' = "sleep" /\ UNCHANGED <<ret, reason>>
               [] OTHER -> Raise(out)
    /\ sftpOpen' = FALSE
    /\ clientOpen' = FALSE
    /\ UNCHANGED <<timeout, lastSleep, attempts>>
    /\ UNCHANGED mainVars
    /\ UNCHANGED copyVars

\* main.py 74: time.sleep(5) after a listing without the file.
Sleep_Short ==
    /\ wpc = "sleep"
    /\ now' = now + 1
    /\ lastSleep' = 1
    /\ wpc' = "while"
    /\ UNCHANGED <<timeout, cycleOps, attempts, clientOpen, sftpOpen,
                   lastOutcome, ret, reason>>
    /\ UNCHANGED mainVars
    /\ UNCHANGED copyVars
Sleep_Stalls ==
    /\ wpc = "sleep"
    /\ now' = now
    /\ lastSleep' = 0
    /\ wpc' = "while"
    /\ UNCHANGED <<timeout, cycleOps, attempts, clientOpen, sftpOpen,
                   lastOutcome, ret, reason>>
    /\ UNCHANGED mainVars
    /\ UNCHANGED copyVars
Sleep ==
    /\ wpc = "sleep"
    /\ now' = now + POLL_INTERVAL
    /\ lastSleep' = POLL_INTERVAL
    /\ wpc' = "while"
    /\ UNCHANGED <<timeout, cycleOps, attempts, clientOpen, sftpOpen,
                   lastOutcome, ret, reason>>
    /\ UNCHANGED mainVars
    /\ UNCHANGED copyVars

\* main.py 76-82: the handler of SSH errors: time.sleep(10); continue
Backoff_AsPoll ==
    /\ wpc = "backoff"
    /\ now' = now + POLL_INTERVAL
    /\ lastSleep' = POLL_INTERVAL
    /\ wpc' = "while"
    /\ UNCHANGED <<timeout, cycleOps, attempts, clientOpen, sftpOpen,
                   lastOutcome, ret, reason>>
    /\ UNCHANGED mainVars
    /\ UNCHANGED copyVars
Backoff ==
    /\ wpc = "backoff"
    /\ now' = now + SSH_BACKOFF
    /\ lastSleep' = SSH_BACKOFF
    /\ wpc' = "while"
    /\ UNCHANGED <<timeout, cycleOps, attempts, clientOpen, sftpOpen,
                   lastOutcome, ret, reason>>
    /\ UNCHANGED mainVars
    /\ UNCHANGED copyVars

NextPoll ==
    \/ PollStart
    \/ WhileCheck
    \/ Connect
    \/ OpenSftp
    \/ Listdir
    \/ Sleep
    \/ Backoff

SpecPoll == InitPoll /\ [][NextPoll]_vars

\* ---------------------------------------- properties of ssh_wait_for_file
Returned == wpc = "returned"

\* C9 as stated: every return of failure comes no later than the timeout plus
\* the poll interval after the call.
C9_FailureWithinPollInterval ==
    Returned /\ ret = "false" => now <= timeout + POLL_INTERVAL

\* C9 as amended: the last pass of the loop starts before the timeout and ends
\* with one sleep, which is the 10-unit backoff after a connection error, so
\* a return of failure comes less than timeout + 10 after the call, the time
\* the session operations of that last pass took not counted.
C9_FailureWithinBackoff ==
    Returned /\ ret = "false" => now - cycleOps < timeout + SSH_BACKOFF

C9_Witness ==
    /\ Returned
    /\ ret = "false"
    /\ reason = "timeout"
    /\ lastSleep = SSH_BACKOFF
    /\ cycleOps = 0
    /\ now > timeout + POLL_INTERVAL

\* C10 as stated: after a failure that is neither an SSH error nor a missing
\* directory the loop goes on, so that a return which follows such a failure
\* is the timeout return.
C10_OtherFailureKeepsPolling ==
    Returned /\ lastOutcome = "otherError" => reason = "timeout"

\* C10 as amended: a failure that is neither an SSH error nor a missing
\* directory ends the call at once: ssh_wait_for_file returns False from its
\* outer handler, without a sleep and without another pass of the loop.
C10_OtherFailureReturnsAtOnce ==
    lastOutcome = "otherError" => Returned /\ ret = "false" /\ reason = "error"

C10_Witness ==
    /\ lastOutcome = "otherError"
    /\ Returned
    /\ ret = "false"
    /\ attempts >= 2
    /\ now < timeout

\* C11 as stated: the file is checked before elapsed time is evaluated, so
\* that the timeout is never reported without at least one connect-and-check.
C11_NoTimeoutWithoutCheck ==
    Returned /\ reason = "timeout" => attempts >= 1

\* C11 as amended: elapsed time is evaluated first. A connect-and-check starts
\* only while elapsed time is below the timeout; the timeout is reported as
\* soon as the loop condition finds it reached, with no check after the last
\* sleep, and with no check at all when the timeout is 0.
C11_TimeEvaluatedFirst ==
    /\ wpc = "connect" => now < timeout
    /\ Returned /\ reason = "timeout" =>
          /\ now >= timeout
          /\ timeout = 0 => attempts = 0
          /\ attempts >= 1 => lastSleep \in {POLL_INTERVAL, SSH_BACKOFF}

C11_Witness ==
    /\ Returned
    /\ reason = "timeout"
    /\ timeout = 0
    /\ attempts = 0

\* C12: a missing remote directory ends the call on that very check: False is
\* returned with no sleep and no further pass of the loop, however much of the
\* timeout is left, and the session of the check is closed.
C12_DirMissingReturnsAtOnce ==
    lastOutcome = "dirMissing" =>
        /\ Returned
        /\ ret = "false"
        /\ reason = "dirMissing"
        /\ ~clientOpen /\ ~sftpOpen

C12_Witness ==
    /\ lastOutcome = "dirMissing"
    /\ Returned
    /\ ret = "false"
    /\ timeout = WAIT_TIMEOUT
    /\ attempts = 2
    /\ now < POLL_INTERVAL + SSH_BACKOFF

\* C19 as stated: the number of connect attempts is at most the timeout
\* divided by the poll interval.
C19_AttemptsWithinQuotient ==
    attempts * POLL_INTERVAL <= timeout

\* C19 as amended: every pass but the last sleeps at least the poll interval
\* and a pass starts before the timeout, so the number of attempts is at most
\* the timeout divided by the poll interval, rounded up: 60 for the timeout of
\* 300 that wait_for_results passes.
C19_AttemptsWithinCeiling ==
    /\ attempts * POLL_INTERVAL < timeout + POLL_INTERVAL
    /\ timeout = WAIT_TIMEOUT => attempts <= 60

C19_Witness ==
    /\ timeout = WAIT_TIMEOUT
    /\ Returned
    /\ reason = "timeout"
    /\ lastOutcome = "absent"
    /\ attempts = 60

\* C21: an SSH error (authentication or protocol) on opening the session never
\* ends the call: the handler sleeps the 10-unit backoff and the loop starts
\* again at the connect, while a listing without the file sleeps the 5-unit
\* interval; the only failure returned after an SSH error is the timeout of
\* the loop condition, and a later pass can still find the file.
C21_SshErrorBacksOffAndRetries ==
    /\ [](lastOutcome = "sshError" =>
              /\ wpc \in {"backoff", "while", "connect", "returned"}
              /\ wpc = "while" => lastSleep = SSH_BACKOFF
              /\ Returned => ret = "false" /\ reason = "timeout" /\ now >= timeout)
    /\ [](lastOutcome = "absent" /\ wpc = "while" => lastSleep = POLL_INTERVAL)
    /\ [][/\ wpc = "backoff" => wpc' = "while" /\ now' = now + SSH_BACKOFF
          /\ wpc = "while" /\ now < timeout => wpc' = "connect"]_vars

\* The file was found on the pass that followed the backoff of an SSH error.
C21_Witness ==
    /\ Returned
    /\ ret = "true"
    /\ lastSleep = SSH_BACKOFF
    /\ attempts >= 2
    /\ now < timeout

\* C23: when ssh_wait_for_file has returned, no session it opened is open,
\* whichever return was taken and whichever call failed on the last pass.
C23_NoSessionOpenAfterReturn ==
    Returned => ~clientOpen /\ ~sftpOpen

\* The returns that do leave a session open are those that follow a failed
\* open_sftp, which is outside the try whose finally closes the client; the
\* channel itself is never left open, and every return that follows a
\* listing, a failed connect of a closed client or a failed key load leaves
\* nothing open.
C23_OnlyFailedChannelLeaks ==
    /\ Returned => ~sftpOpen
    /\ Returned /\ reason \in {"found", "dirMissing"} => ~clientOpen

\* ------------------------------------------------------------ termination
\* A run of main() or a call of ssh_wait_for_file, each statement of which is
\* executed once the one before it has returned: the interpreter does not
\* stop between two statements.
InitRun == Init \/ InitPoll

NextRun == Next \/ NextPoll

SpecRun == InitRun /\ [][NextRun]_vars /\ WF_vars(NextRun)

\* The final messages of the finally block.
TerminalResults == {"Succeeded", "Failed"}

\* C22: the run always terminates. ssh_wait_for_file returns whatever the
\* checks answer, every way back to its loop condition having slept at least
\* the poll interval; every region that was started gets its final message;
\* and the run reaches the report and ends.
C22_RunTerminates ==
    /\ (wpc = "start") ~> Returned
    /\ [][wpc # "start" /\ wpc' = "while" => now' >= now + POLL_INTERVAL]_vars
    /\ \A i \in 1..MaxRegions :
           (i <= Len(started)) ~> (i \in DOMAIN result /\ result[i] \in TerminalResults)
    /\ (pc = "start") ~> (reportCalls = 1 /\ pc \in {"done", "crashed"})

\* The run has ended after the report, with every region of the longest
\* list at its final message, one of them failed.
C22_Witness ==
    /\ pc = "done"
    /\ reportCalls = 1
    /\ Len(regions) >= 2
    /\ \A i \in Positions : result[i] \in TerminalResults
    /\ \E i \in Positions : result[i] = "Failed"
    /\ \E i \in Positions : result[i] = "Succeeded"


\* ------------------------- the artifact: agent, copy_results, load_results
\* The exchanges of config.exchanges.api_keys.
ExchangeIds == {"binance", "kraken"}

\* What test_exchange_latency returns for one exchange: all latencies, the
\* public ones only, or none of them with an error text.
MetricKinds == {"measured", "publicOnly", "failed"}

\* /tmp/exchange_config.json as the agent finds it: not readable, readable
\* with "exchanges": null (api_keys left empty in config.yaml), or readable
\* with a dictionary of exchanges.
AgentConfigs ==
    {[kind |-> k, ids |-> {}] : k \in {"missing", "nullKeys"}}
        \cup {[kind |-> "ok", ids |-> e] : e \in SUBSET ExchangeIds}

\* collect_exchange_stats.py 109-131: the dictionary of the normal path.
ResultsArtifact(metrics) ==
    [text |-> "json", keys |-> {"region", "timestamp", "exchanges"},
     exchanges |-> metrics]

\* collect_exchange_stats.py 133-144: the dictionary of the handler.
ErrorArtifact ==
    [text |-> "json", keys |-> {"error", "timestamp", "region"},
     exchanges |-> <<>>]

\* collect_exchange_stats.py 135-140: the handler opens the file for writing
\* and then reads `config`, which is unbound when line 106-107 raised.
EmptyArtifact == [text |-> "empty", keys |-> {}, exchanges |-> <<>>]

\* collect_exchange_stats.py main(): the file it leaves for a configuration.
AgentWrites(cfg, metrics) ==
    CASE cfg.kind = "missing" -> EmptyArtifact
      [] cfg.kind = "nullKeys" -> ErrorArtifact
      [] OTHER -> ResultsArtifact(metrics)

\* The strftime values of line 202.
Timestamps == {"20240101_120000", "20240101_120001"}

\* main.py 203-206: the local file name, as its parts.
LocalPath(r, ts) == <<"results_", r, "_", ts, ".json">>

\* results_processor.py 16: startswith("results_") and endswith(".json").
Discovered(name) == name[1] = "results_" /\ name[Len(name)] = ".json"

\* results_processor.py 17-37 for one file: json.load, then the three keys.
ParseResult(file) ==
    IF file.text # "json" THEN "JSONDecodeError"
    ELSE IF "region" \notin file.keys THEN "KeyError"
    ELSE IF "timestamp" \notin file.keys THEN "KeyError"
    ELSE IF "exchanges" \notin file.keys THEN "KeyError"
    ELSE "ok"

\* results_processor.py 12-39: the first file that raises ends the call.
load_results(files) ==
    LET bad == {f \in files : Discovered(f.name) /\ ParseResult(f.content) # "ok"}
    IN  IF bad = {} THEN "ok" ELSE ParseResult((CHOOSE f \in bad : TRUE).content)

\* main.py 215-216, 222-223: the finally blocks close what is open, however
\* the block they guard ended.
StillOpen_LeakOnError(open, out) == open /\ out # "ok"
StillOpen(open, out) == FALSE

\* The agent has not written yet; one deployment is about to copy.
InitSession ==
    /\ MainIdle
    /\ PollIdle
    /\ cpc = "agent"
    /\ copyRegion \in RegionNames
    /\ remoteFile = NoFile
    /\ copyClient = FALSE
    /\ copySftp = FALSE
    /\ copyRet = "none"
    /\ copyFailedAt = "none"
    /\ output_dir = {}
    /\ loaded = "none"

\* copy_results returns False from one of its handlers.
CopyFails(at) ==
    /\ cpc' = "returned"
    /\ copyRet' = "false"
    /\ copyFailedAt' = at

\* collect_exchange_stats.py 104-144: the agent writes its file.
AgentMain ==
    /\ cpc = "agent"
    /\ \E cfg \in AgentConfigs : \E metrics \in [cfg.ids -> MetricKinds] :
           remoteFile' = AgentWrites(cfg, metrics)
    /\ cpc' = "copy"
    /\ UNCHANGED <<copyRegion, copyClient, copySftp, copyRet, copyFailedAt,
                   output_dir, loaded>>
    /\ UNCHANGED mainVars
    /\ UNCHANGED pollVars

\* main.py 192-194: the key is read and the client built.
CopyLoadKey ==
    /\ cpc = "copy"
    /\ \E out \in KeyOutcomes :
           IF out = "ok"
             THEN cpc' = "connect" /\ UNCHANGED <<copyRet, copyFailedAt>>
             ELSE CopyFails("key")
    /\ UNCHANGED <<copyRegion, remoteFile, copyClient, copySftp, output_dir,
                   loaded>>
    /\ UNCHANGED mainVars
    /\ UNCHANGED pollVars

\* main.py 197-199, 218-223: client.connect, its handler and its finally.
CopyConnect ==
    /\ cpc = "connect"
    /\ \E out \in BoolOutcomes :
           IF out = "ok"
             THEN /\ cpc' = "sftp"
                  /\ copyClient' = TRUE
                  /\ UNCHANGED <<copyRet, copyFailedAt>>
             ELSE /\ CopyFails("connect")
                  /\ copyClient' = StillOpen(copyClient, out)
    /\ UNCHANGED <<copyRegion, remoteFile, copySftp, output_dir, loaded>>
    /\ UNCHANGED mainVars
    /\ UNCHANGED pollVars

\* main.py 200, 218-223: client.open_sftp, the handler and the finally.
CopyOpenSftp ==
    /\ cpc = "sftp"
    /\ \E out \in BoolOutcomes :
           IF out = "ok"
             THEN /\ cpc' = "get"
                  /\ copySftp' = TRUE
                  /\ UNCHANGED <<copyClient, copyRet, copyFailedAt>>
             ELSE /\ CopyFails("sftp")
                  /\ copyClient' = StillOpen(copyClient, out)
                  /\ UNCHANGED copySftp
    /\ UNCHANGED <<copyRegion, remoteFile, output_dir, loaded>>
    /\ UNCHANGED mainVars
    /\ UNCHANGED pollVars

\* main.py 201-223: sftp.get writes the remote bytes to the local path; both
\* finally blocks run on the way out.
CopyGet ==
    /\ cpc = "get"
    /\ \E out \in BoolOutcomes :
           /\ IF out = "ok"
                THEN /\ \E ts \in Timestamps :
                            output_dir' = output_dir \cup
                                {[name |-> LocalPath(copyRegion, ts),
                                  content |-> remoteFile]}
                     /\ cpc' = "returned"
                     /\ copyRet' = "true"
                     /\ UNCHANGED copyFailedAt
                ELSE /\ CopyFails("get")
                     /\ UNCHANGED output_dir
           /\ copySftp' = StillOpen(copySftp, out)
           /\ copyClient' = StillOpen(copyClient, out)
    /\ UNCHANGED <<copyRegion, remoteFile, loaded>>
    /\ UNCHANGED mainVars
    /\ UNCHANGED pollVars

\* main.py 317, results_processor.py 12-39: the report reads the directory.
LoadResults ==
    /\ cpc = "returned"
    /\ loaded' = load_results(output_dir)
    /\ cpc' = "loaded"
    /\ UNCHANGED <<copyRegion, remoteFile, copyClient, copySftp, copyRet,
                   copyFailedAt, output_dir>>
    /\ UNCHANGED mainVars
    /\ UNCHANGED pollVars

NextSession ==
    \/ AgentMain
    \/ CopyLoadKey
    \/ CopyConnect
    \/ CopyOpenSftp
    \/ CopyGet
    \/ LoadResults

SpecSession == InitSession /\ [][NextSession]_vars

\* ------------------------------------------------- properties of the copy
\* C16: every artifact the agent can write, copied unchanged to
\* results_<region>_<timestamp>.json, is found and parsed by load_results
\* without an error.
C16_EveryArtifactLoads ==
    cpc = "loaded" /\ copyRet = "true" => loaded = "ok"

\* The artifacts of the normal path do load: only the files of the agent's
\* error paths make load_results raise.
C16_OnlyErrorPathsFail ==
    cpc = "loaded" /\ loaded # "ok" =>
        \E f \in output_dir : f.content \in {ErrorArtifact, EmptyArtifact}

\* C17: when copy_results has returned, no session it opened is open,
\* whichever call failed.
C17_NoSessionOpenAfterReturn ==
    copyRet # "none" => ~copyClient /\ ~copySftp

\* copy_results returned False after sftp.get raised, with both the
\* connection and the channel opened before.
C17_Witness ==
    /\ copyRet = "false"
    /\ copyFailedAt = "get"
    /\ ~copyClient
    /\ ~copySftp


====
